---- MODULE Spec2Model ----
(***************************************************************************)
(* Model of the CineSuggest service layer:                                 *)
(*   services/tmdbService.ts  - fetchFromTMDb, getSortByValue,             *)
(*                              getKeywordIds, getGenreIds, discoverMedia  *)
(*   services/aiService.ts and its two Gemini variants                     *)
(*                            - getSearchTermsFromAI, getChatResponseFromAI*)
(*                                                                         *)
(* Strings are sequences of one-character strings, so that toLowerCase     *)
(* and trim are computed character by character.  JavaScript runs one      *)
(* callback at a time: every action below is the code between two awaits.  *)
(***************************************************************************)
EXTENDS Integers, Sequences, FiniteSets, TLC

VARIABLES
  keywordCache,   \* tmdbService.ts:43, normalized phrase -> keyword id
  genreCache,     \* tmdbService.ts:80, media type -> genre list
  proc,           \* per caller: where its call stands, and the call's locals
  genreRequested, \* per media type: whether a genre-list request was ever issued
  caller,         \* per caller: what it remembers of its previous call
  disc,           \* the discoverMedia call in progress
  ai,             \* the aiService call in progress
  lang            \* the language of each call and of each cached response

vars == <<keywordCache, genreCache, proc, genreRequested, caller, disc, ai, lang>>

(***************************************************************************)
(* Bounds of the model.                                                    *)
(***************************************************************************)
MaxPhrases == 2
MaxNames == 1
MaxIds == 1
MaxHistory == 2

Callers == {"c1", "c2"}
Languages == {"en-US", "es-ES"}
MediaTypes == {"movie", "tv"}

\* Raw phrases a caller may pass: spellings of the keys "a", "b", "ab", "".
Phrases ==
  { <<"a">>, <<" ", "A", " ">>, <<"B", " ">>, <<"a", "b">>, <<" ">> }

RECURSIVE SeqsUpTo(_, _)
SeqsUpTo(S, n) ==
  IF n = 0 THEN {<<>>}
  ELSE LET shorter == SeqsUpTo(S, n - 1)
       IN  shorter \cup {Append(s, x) : s \in {t \in shorter : Len(t) = n - 1}, x \in S}

PhraseLists == SeqsUpTo(Phrases, MaxPhrases)

\* Genre name lists of the callers that run concurrently.
NameLists == SeqsUpTo(Phrases, MaxNames)

None == "none"

\* An optional argument or field: <<>> when it is undefined, <<v>> otherwise.
Undefined == <<>>
Some(v) == <<v>>
OrDefault(option, default) == IF option = Undefined THEN default ELSE option[1]

(***************************************************************************)
(* String helpers of the JavaScript runtime used by the code.              *)
(***************************************************************************)
LowerChar(c) ==
  CASE c = "A" -> "a"
    [] c = "B" -> "b"
    [] OTHER -> c

ToLowerCase(s) == [i \in 1..Len(s) |-> LowerChar(s[i])]

IsSpace(c) == c = " "

RECURSIVE TrimStart(_)
TrimStart(s) ==
  IF s # <<>> /\ IsSpace(Head(s)) THEN TrimStart(Tail(s)) ELSE s

RECURSIVE TrimEnd(_)
TrimEnd(s) ==
  IF s # <<>> /\ IsSpace(s[Len(s)]) THEN TrimEnd(SubSeq(s, 1, Len(s) - 1)) ELSE s

Trim(s) == TrimEnd(TrimStart(s))

\* A slip: the phrase is trimmed but not lower-cased.
Normalize_TrimOnly(s) == Trim(s)

\* k.toLowerCase().trim()
Normalize(s) == Trim(ToLowerCase(s))

Contains(seq, x) == \E i \in 1..Len(seq) : seq[i] = x

\* [...new Set(xs)]: first occurrences, in insertion order.
RECURSIVE Unique(_)
Unique(xs) ==
  IF xs = <<>> THEN <<>>
  ELSE LET init == Unique(SubSeq(xs, 1, Len(xs) - 1))
           last == xs[Len(xs)]
       IN  IF Contains(init, last) THEN init ELSE Append(init, last)

MapSeq(Op(_), xs) == [i \in 1..Len(xs) |-> Op(xs[i])]

RECURSIVE FilterSeq(_, _)
FilterSeq(Keep(_), xs) ==
  IF xs = <<>> THEN <<>>
  ELSE IF Keep(Head(xs)) THEN <<Head(xs)>> \o FilterSeq(Keep, Tail(xs))
       ELSE FilterSeq(Keep, Tail(xs))

\* encodeURIComponent on the model's alphabet: letters pass, a space is escaped.
EncodeChar(c) == IF IsSpace(c) THEN "%20" ELSE c
EncodeURIComponent(s) == MapSeq(EncodeChar, s)

(***************************************************************************)
(* The upstream TMDb service: what an endpoint answers when it answers.    *)
(* Keyword search: "a" and "b" share their first match, "ab" has its own,  *)
(* every other query (the empty one included) has no match.                *)
(***************************************************************************)
KeywordSearch(query) ==
  CASE query = <<"a">> -> <<[id |-> 7], [id |-> 8]>>
    [] query = <<"b">> -> <<[id |-> 7]>>
    [] query = <<"a", "b">> -> <<[id |-> 9]>>
    [] OTHER -> <<>>

\* Genre names are localized, genre ids are not.
GenreListing(type, language) ==
  CASE type = "movie" /\ language = "en-US" ->
         <<[id |-> 28, name |-> <<"A", "b">>], [id |-> 12, name |-> <<"b", " ">>]>>
    [] type = "movie" /\ language = "es-ES" ->
         <<[id |-> 28, name |-> <<"A">>], [id |-> 12, name |-> <<"B">>]>>
    [] type = "tv" /\ language = "en-US" ->
         <<[id |-> 10, name |-> <<"a">>], [id |-> 28, name |-> <<"A", "b">>]>>
    [] OTHER ->
         <<[id |-> 10, name |-> <<"a", "b">>], [id |-> 28, name |-> <<"A">>]>>

\* What the network does with one request.
HttpStatuses == {404, 500}
OkOutcome == [kind |-> "ok", status |-> 200]
FailureOutcomes ==
  {[kind |-> "http", status |-> s] : s \in HttpStatuses}
    \cup {[kind |-> "network", status |-> 0], [kind |-> "badjson", status |-> 200]}

(***************************************************************************)
(* fetchFromTMDb: the try block, then the catch block.                     *)
(***************************************************************************)
Returned(v) == [tag |-> "returned", value |-> v, name |-> None, message |-> <<>>]
Thrown(n, m) == [tag |-> "thrown", value |-> None, name |-> n, message |-> m]

\* Line 11-15: fetch rejects on a network error; a response that is not ok
\* throws the status message; otherwise the promise of response.json() is
\* returned without being awaited.
FetchTryBlock(endpoint, outcome) ==
  CASE outcome.kind = "network" ->
         Thrown("TypeError", <<"Failed to fetch">>)
    [] outcome.kind = "http" ->
         Thrown("Error", <<"TMDb API request failed for ", endpoint,
                           " with status ", outcome.status>>)
    [] OTHER -> Returned("response.json()")

\* Line 16-19: whatever the try block threw is logged and replaced.
FetchCatchBlock(endpoint, attempt) ==
  IF attempt.tag = "thrown"
  THEN Thrown("Error", <<"Failed to fetch data from TMDb for ", endpoint, ".">>)
  ELSE attempt

\* The promise returned from inside the try settles after the function has
\* left it: a body that is not JSON rejects with the parser's own error.
fetchFromTMDb(endpoint, outcome, body) ==
  LET attempt == FetchCatchBlock(endpoint, FetchTryBlock(endpoint, outcome))
  IN  IF attempt.tag = "thrown" THEN attempt
      ELSE IF outcome.kind = "badjson"
           THEN Thrown("SyntaxError", <<"Unexpected token">>)
           ELSE Returned(body)

KeywordEndpoint(keyword) ==
  <<"search/keyword?query=", EncodeURIComponent(keyword), "&page=1">>

GenreEndpoint(type) == <<"genre/", type, "/list">>

(***************************************************************************)
(* getKeywordIds, the code before the await (lines 46-58).                 *)
(***************************************************************************)
UniqueKeywords(keywords) == Unique(MapSeq(Normalize, keywords))

CachedIds(uniqueKeywords, cache) ==
  MapSeq(LAMBDA k : cache[k],
         FilterSeq(LAMBDA k : k \in DOMAIN cache, uniqueKeywords))

KeywordsToFetch(uniqueKeywords, cache) ==
  FilterSeq(LAMBDA k : k \notin DOMAIN cache, uniqueKeywords)

\* A slip: cachedIds is returned as it is.
UniqueIds_NoDedupe(cachedIds) == cachedIds

\* Line 76: return [...new Set(cachedIds)].
UniqueIds(cachedIds) == Unique(cachedIds)

CacheSet(cache, key, id) ==
  [k \in DOMAIN cache \cup {key} |-> IF k = key THEN id ELSE cache[k]]

\* A slip: the ids are collected but keywordCache.set is left out.
RECURSIVE StoreResponses_NoCacheSet(_, _, _, _)
StoreResponses_NoCacheSet(toFetch, responses, ids, cache) ==
  IF toFetch = <<>> THEN [ids |-> ids, cache |-> cache]
  ELSE LET res == Head(responses)
       IN  StoreResponses_NoCacheSet(Tail(toFetch), Tail(responses),
                                     IF Len(res) > 0 THEN Append(ids, res[1].id) ELSE ids,
                                     cache)

\* A slip: each new id is put in front of cachedIds (unshift for push).
RECURSIVE StoreResponses_Unshift(_, _, _, _)
StoreResponses_Unshift(toFetch, responses, ids, cache) ==
  IF toFetch = <<>> THEN [ids |-> ids, cache |-> cache]
  ELSE LET res == Head(responses)
       IN  IF Len(res) > 0
           THEN StoreResponses_Unshift(Tail(toFetch), Tail(responses),
                                       <<res[1].id>> \o ids,
                                       CacheSet(cache, Head(toFetch), res[1].id))
           ELSE StoreResponses_Unshift(Tail(toFetch), Tail(responses), ids, cache)

\* Lines 66-73: keywordResponses.forEach, in index order.
RECURSIVE StoreResponses(_, _, _, _)
StoreResponses(toFetch, responses, ids, cache) ==
  IF toFetch = <<>> THEN [ids |-> ids, cache |-> cache]
  ELSE LET res == Head(responses)
       IN  IF Len(res) > 0
           THEN StoreResponses(Tail(toFetch), Tail(responses),
                               Append(ids, res[1].id),
                               CacheSet(cache, Head(toFetch), res[1].id))
           ELSE StoreResponses(Tail(toFetch), Tail(responses), ids, cache)

(***************************************************************************)
(* getGenreIds, lines 94-98.                                               *)
(***************************************************************************)
\* A slip: the movie list is tested whatever the type.
GenreCacheHit_MovieOnly(cache, type) == Len(cache["movie"]) > 0

\* Line 83: if (genreCache[type].length > 0).
GenreCacheHit(cache, type) == Len(cache[type]) > 0

LowerCaseGenreNames(genreNames) == MapSeq(Normalize, genreNames)

MatchGenres(genreList, lowerCaseGenreNames) ==
  MapSeq(LAMBDA g : g.id,
         FilterSeq(LAMBDA g : Contains(lowerCaseGenreNames, Normalize(g.name)),
                   genreList))

(***************************************************************************)
(* State of one caller: where its call stands and the call's locals.       *)
(* names holds lowerCaseGenreNames (getGenreIds); distinct is the length   *)
(* of uniqueKeywords (getKeywordIds); via tells whether the ids came from  *)
(* the cache alone or from the network; cause is what the network did to   *)
(* the request that failed.                                                *)
(***************************************************************************)
Idle ==
  [pc |-> "idle", op |-> None, names |-> <<>>, distinct |-> 0,
   toFetch |-> <<>>, cachedIds |-> <<>>,
   type |-> None, language |-> None, via |-> None,
   result |-> None, error |-> None, cause |-> None]

\* A caller that remembers no call (rel is "none").  Otherwise: args, the
\* raw list it passed to the call in progress; rel, how that list relates to
\* the one of its previous call ("first" when there was none); previous,
\* what the previous call returned.
Fresh == [args |-> <<>>, rel |-> "none", previous |-> <<>>]

\* The spellings of each name in Phrases.
NameGroups ==
  { {<<"a">>, <<" ", "A", " ">>}, {<<"B", " ">>}, {<<"a", "b">>}, {<<" ">>} }

SameName(s, t) == \E group \in NameGroups : s \in group /\ t \in group

\* "identical": the same list; "respelt": the same names, position by
\* position, at least one spelt differently; "other" otherwise.
Relation(before, now) ==
  IF now = before THEN "identical"
  ELSE IF Len(now) = Len(before) /\ \A i \in 1..Len(now) : SameName(now[i], before[i])
       THEN "respelt"
       ELSE "other"

NoError == [name |-> None, message |-> <<>>]

DiscIdle ==
  [pc |-> "idle", args |-> Undefined, request |-> Undefined, language |-> None,
   result |-> <<>>, error |-> NoError]

AiIdle ==
  [pc |-> "idle", op |-> None, variant |-> None, query |-> None, messages |-> <<>>,
   reply |-> Undefined, outcome |-> Undefined]

\* call: the language argument of each caller's call; genres, keywords: the
\* language of the request whose response each cache entry holds.
NoLanguages ==
  [call |-> [c \in Callers |-> None],
   genres |-> [t \in MediaTypes |-> None],
   keywords |-> [k \in {} |-> None]]

Init ==
  /\ keywordCache = [k \in {} |-> 0]
  /\ genreCache = [t \in MediaTypes |-> <<>>]
  /\ proc = [c \in Callers |-> Idle]
  /\ genreRequested = [t \in MediaTypes |-> FALSE]
  /\ caller = [c \in Callers |-> Fresh]
  /\ disc = DiscIdle
  /\ ai = AiIdle
  /\ lang = NoLanguages

ErrorOf(delivered) == [name |-> delivered.name, message |-> delivered.message]

(***************************************************************************)
(* getKeywordIds.                                                          *)
(***************************************************************************)
\* Lines 46-63: up to the await, or to the return when nothing is fetched.
KeywordCall(c, keywords, language) ==
  /\ IF keywords = <<>>
     THEN proc' = [proc EXCEPT ![c] =
                     [Idle EXCEPT !.pc = "done", !.op = "keywords", !.result = <<>>]]
     ELSE LET uniqueKeywords == UniqueKeywords(keywords)
              cachedIds == CachedIds(uniqueKeywords, keywordCache)
              keywordsToFetch == KeywordsToFetch(uniqueKeywords, keywordCache)
              started == [Idle EXCEPT !.op = "keywords",
                                      !.distinct = Len(uniqueKeywords)]
          IN  proc' = [proc EXCEPT ![c] =
                         IF Len(keywordsToFetch) > 0
                         THEN [started EXCEPT !.pc = "await",
                                              !.toFetch = keywordsToFetch,
                                              !.cachedIds = cachedIds,
                                              !.language = language]
                         ELSE [started EXCEPT !.pc = "done", !.via = "cache",
                                              !.result = UniqueIds(cachedIds)]]
  /\ UNCHANGED <<keywordCache, genreCache, genreRequested>>

KwStart(c) ==
  /\ proc[c].pc = "idle"
  /\ \E keywords \in PhraseLists, language \in Languages :
       KeywordCall(c, keywords, language)
  /\ UNCHANGED caller

\* Lines 64-76, Promise.all resolved: every request was answered.
KwResolve(c) ==
  /\ proc[c].pc = "await" /\ proc[c].op = "keywords"
  /\ LET toFetch == proc[c].toFetch
         delivered == [i \in 1..Len(toFetch) |->
                         fetchFromTMDb(KeywordEndpoint(toFetch[i]), OkOutcome,
                                       KeywordSearch(toFetch[i]))]
         responses == [i \in 1..Len(toFetch) |-> delivered[i].value]
         stored == StoreResponses(toFetch, responses, proc[c].cachedIds, keywordCache)
     IN  /\ keywordCache' = stored.cache
         /\ proc' = [proc EXCEPT ![c] =
                       [@ EXCEPT !.pc = "done", !.toFetch = <<>>, !.cachedIds = <<>>,
                                 !.language = None, !.via = "network",
                                 !.result = UniqueIds(stored.ids)]]
  /\ UNCHANGED <<genreCache, genreRequested, caller>>

\* What a call leaves behind when the await throws: the error goes to the
\* caller, the locals are gone.
Failure(call, delivered, outcome) ==
  [Idle EXCEPT !.pc = "failed", !.op = call.op, !.distinct = call.distinct,
               !.error = ErrorOf(delivered), !.cause = outcome]

\* A slip: the responses that did arrive are stored before the error is
\* thrown on (Promise.allSettled instead of Promise.all).
KwReject_KeepsFulfilled(c) ==
  /\ proc[c].pc = "await" /\ proc[c].op = "keywords"
  /\ \E i \in 1..Len(proc[c].toFetch), outcome \in FailureOutcomes :
       LET toFetch == proc[c].toFetch
           delivered == fetchFromTMDb(KeywordEndpoint(toFetch[i]), outcome,
                                      KeywordSearch(toFetch[i]))
           fulfilled == [j \in 1..Len(toFetch) |->
                           IF j = i THEN <<>> ELSE KeywordSearch(toFetch[j])]
           stored == StoreResponses(toFetch, fulfilled, proc[c].cachedIds, keywordCache)
       IN  /\ proc' = [proc EXCEPT ![c] = Failure(proc[c], delivered, outcome)]
           /\ keywordCache' = stored.cache
  /\ caller' = [caller EXCEPT ![c] = Fresh]
  /\ UNCHANGED <<genreCache, genreRequested>>

\* Line 64, Promise.all rejected: request i was the first to fail.
KwReject(c) ==
  /\ proc[c].pc = "await" /\ proc[c].op = "keywords"
  /\ \E i \in 1..Len(proc[c].toFetch), outcome \in FailureOutcomes :
       LET keyword == proc[c].toFetch[i]
           delivered == fetchFromTMDb(KeywordEndpoint(keyword), outcome,
                                      KeywordSearch(keyword))
       IN  proc' = [proc EXCEPT ![c] = Failure(proc[c], delivered, outcome)]
  /\ caller' = [caller EXCEPT ![c] = Fresh]
  /\ UNCHANGED <<keywordCache, genreCache, genreRequested>>

(***************************************************************************)
(* getGenreIds with getGenreList.                                          *)
(***************************************************************************)
\* A slip: a cached list counts only for the language it was fetched in.
GenreCall_PerLanguage(c, genreNames, type, language) ==
  /\ IF genreNames = <<>>
     THEN /\ proc' = [proc EXCEPT ![c] =
                        [Idle EXCEPT !.pc = "done", !.op = "genres", !.type = type,
                                     !.result = <<>>]]
          /\ UNCHANGED genreRequested
     ELSE IF GenreCacheHit(genreCache, type)
             /\ genreCache[type] = GenreListing(type, language)
     THEN /\ proc' = [proc EXCEPT ![c] =
                        [Idle EXCEPT !.pc = "done", !.op = "genres", !.type = type,
                                     !.via = "cache",
                                     !.result = MatchGenres(genreCache[type],
                                                  LowerCaseGenreNames(genreNames))]]
          /\ UNCHANGED genreRequested
     ELSE /\ genreRequested' = [genreRequested EXCEPT ![type] = TRUE]
          /\ proc' = [proc EXCEPT ![c] =
                        [Idle EXCEPT !.pc = "await", !.op = "genres", !.type = type,
                                     !.names = LowerCaseGenreNames(genreNames),
                                     !.language = language]]
  /\ UNCHANGED <<keywordCache, genreCache>>

\* Lines 92-93 and 83-86: up to the await of the genre-list request, or,
\* on a cache hit, through lines 94-98 to the return.
GenreCall(c, genreNames, type, language) ==
  /\ IF genreNames = <<>>
     THEN /\ proc' = [proc EXCEPT ![c] =
                        [Idle EXCEPT !.pc = "done", !.op = "genres", !.type = type,
                                     !.result = <<>>]]
          /\ UNCHANGED genreRequested
     ELSE IF GenreCacheHit(genreCache, type)
     THEN /\ proc' = [proc EXCEPT ![c] =
                        [Idle EXCEPT !.pc = "done", !.op = "genres", !.type = type,
                                     !.via = "cache",
                                     !.result = MatchGenres(genreCache[type],
                                                  LowerCaseGenreNames(genreNames))]]
          /\ UNCHANGED genreRequested
     ELSE /\ genreRequested' = [genreRequested EXCEPT ![type] = TRUE]
          /\ proc' = [proc EXCEPT ![c] =
                        [Idle EXCEPT !.pc = "await", !.op = "genres", !.type = type,
                                     !.names = LowerCaseGenreNames(genreNames),
                                     !.language = language]]
  /\ UNCHANGED <<keywordCache, genreCache>>

GenreStart(c) ==
  /\ proc[c].pc = "idle"
  /\ \E genreNames \in NameLists, type \in MediaTypes, language \in Languages :
       GenreCall(c, genreNames, type, language)
  /\ UNCHANGED caller

\* Lines 86-88 and 94-98: the genre list arrived.
GenreResolve(c) ==
  /\ proc[c].pc = "await" /\ proc[c].op = "genres"
  /\ LET type == proc[c].type
         delivered == fetchFromTMDb(GenreEndpoint(type), OkOutcome,
                                    [genres |-> GenreListing(type, proc[c].language)])
         data == delivered.value
     IN  /\ genreCache' = [genreCache EXCEPT ![type] = data.genres]
         /\ proc' = [proc EXCEPT ![c] =
                       [@ EXCEPT !.pc = "done", !.language = None, !.names = <<>>,
                                 !.via = "network",
                                 !.result = MatchGenres(data.genres, proc[c].names)]]
  /\ UNCHANGED <<keywordCache, genreRequested, caller>>

\* Line 86 throws: the genre-list request failed.
GenreReject(c) ==
  /\ proc[c].pc = "await" /\ proc[c].op = "genres"
  /\ \E outcome \in FailureOutcomes :
       LET delivered == fetchFromTMDb(GenreEndpoint(proc[c].type), outcome,
                                      [genres |-> <<>>])
       IN  proc' = [proc EXCEPT ![c] = Failure(proc[c], delivered, outcome)]
  /\ caller' = [caller EXCEPT ![c] = Fresh]
  /\ UNCHANGED <<keywordCache, genreCache, genreRequested>>

\* The caller has consumed the result or the error.
Return(c) ==
  /\ proc[c].pc \in {"done", "failed"}
  /\ proc' = [proc EXCEPT ![c] = Idle]
  /\ caller' = [caller EXCEPT ![c] = Fresh]
  /\ UNCHANGED <<keywordCache, genreCache, genreRequested>>

(***************************************************************************)
(* One caller that calls, and then calls again with the same names.        *)
(***************************************************************************)
KwFirst(c) ==
  /\ proc[c].pc = "idle"
  /\ \E keywords \in PhraseLists, language \in Languages :
       /\ KeywordCall(c, keywords, language)
       /\ caller' = [caller EXCEPT ![c] = [Fresh EXCEPT !.args = keywords, !.rel = "first"]]

KwAgain(c) ==
  /\ proc[c].pc = "done" /\ proc[c].op = "keywords" /\ caller[c].rel = "first"
  /\ \E keywords \in PhraseLists, language \in Languages :
       /\ Relation(caller[c].args, keywords) \in {"identical", "respelt"}
       /\ KeywordCall(c, keywords, language)
       /\ caller' = [caller EXCEPT ![c] =
                       [args |-> keywords,
                        rel |-> Relation(caller[c].args, keywords),
                        previous |-> proc[c].result]]

GenreFirst(c) ==
  /\ proc[c].pc = "idle"
  /\ \E genreNames \in PhraseLists, type \in MediaTypes, language \in Languages :
       /\ GenreCall(c, genreNames, type, language)
       /\ caller' = [caller EXCEPT ![c] = [Fresh EXCEPT !.args = genreNames, !.rel = "first"]]

GenreAgain(c) ==
  /\ proc[c].pc = "done" /\ proc[c].op = "genres" /\ caller[c].rel = "first"
  /\ \E genreNames \in PhraseLists, language \in Languages :
       /\ Relation(caller[c].args, genreNames) \in {"identical", "respelt"}
       /\ GenreCall(c, genreNames, proc[c].type, language)
       /\ caller' = [caller EXCEPT ![c] =
                       [args |-> genreNames,
                        rel |-> Relation(caller[c].args, genreNames),
                        previous |-> proc[c].result]]

NextCaller ==
  /\ \/ KwFirst("c1")
     \/ KwAgain("c1")
     \/ KwResolve("c1")
     \/ KwReject("c1")
     \/ GenreFirst("c1")
     \/ GenreAgain("c1")
     \/ GenreResolve("c1")
     \/ GenreReject("c1")
     \/ Return("c1")
  /\ UNCHANGED <<disc, ai, lang>>

SpecCaller == Init /\ [][NextCaller]_vars

(***************************************************************************)
(* One caller of getKeywordIds alone.                                      *)
(***************************************************************************)
NextKeywordCaller ==
  /\ \/ KwFirst("c1")
     \/ KwAgain("c1")
     \/ KwResolve("c1")
     \/ KwReject("c1")
     \/ Return("c1")
  /\ UNCHANGED <<disc, ai, lang>>

SpecKeywordCaller == Init /\ [][NextKeywordCaller]_vars

(***************************************************************************)
(* Concurrent getKeywordIds calls.                                         *)
(***************************************************************************)
Next ==
  /\ \E c \in Callers :
       \/ KwStart(c)
       \/ KwResolve(c)
       \/ KwReject(c)
       \/ Return(c)
  /\ UNCHANGED <<disc, ai, lang>>

Spec == Init /\ [][Next]_vars

(***************************************************************************)
(* Concurrent getGenreIds calls.                                           *)
(***************************************************************************)
NextGenres ==
  /\ \E c \in Callers :
       \/ GenreStart(c)
       \/ GenreResolve(c)
       \/ GenreReject(c)
       \/ Return(c)
  /\ UNCHANGED <<disc, ai, lang>>

SpecGenres == Init /\ [][NextGenres]_vars

(***************************************************************************)
(* One caller's getKeywordIds and getGenreIds calls in either language,    *)
(* with the language of every call and of every cached response on record. *)
(***************************************************************************)
\* The name lists of these calls: "a" is a genre name in one language only.
LangLists == SeqsUpTo({<<"a">>, <<"B", " ">>}, MaxNames)

LangKwStart(c) ==
  /\ proc[c].pc = "idle"
  /\ \E keywords \in LangLists, language \in Languages :
       /\ KeywordCall(c, keywords, language)
       /\ caller' = [caller EXCEPT ![c] = [Fresh EXCEPT !.args = keywords, !.rel = "first"]]
       /\ lang' = [lang EXCEPT !.call[c] = language]

LangKwResolve(c) ==
  /\ KwResolve(c)
  /\ lang' = [lang EXCEPT !.keywords =
                [k \in DOMAIN keywordCache' |->
                   IF Contains(proc[c].toFetch, k) THEN proc[c].language
                   ELSE lang.keywords[k]]]

LangKwReject(c) ==
  /\ KwReject(c)
  /\ UNCHANGED lang

LangGenreStart(c) ==
  /\ proc[c].pc = "idle"
  /\ \E genreNames \in LangLists, type \in MediaTypes, language \in Languages :
       /\ GenreCall(c, genreNames, type, language)
       /\ caller' = [caller EXCEPT ![c] = [Fresh EXCEPT !.args = genreNames, !.rel = "first"]]
       /\ lang' = [lang EXCEPT !.call[c] = language]

LangGenreResolve(c) ==
  /\ GenreResolve(c)
  /\ lang' = [lang EXCEPT !.genres[proc[c].type] = proc[c].language]

LangGenreReject(c) ==
  /\ GenreReject(c)
  /\ UNCHANGED lang

LangReturn(c) ==
  /\ Return(c)
  /\ lang' = [lang EXCEPT !.call[c] = None]

NextLanguage ==
  /\ \/ LangKwStart("c1")
     \/ LangKwResolve("c1")
     \/ LangKwReject("c1")
     \/ LangGenreStart("c1")
     \/ LangGenreResolve("c1")
     \/ LangGenreReject("c1")
     \/ LangReturn("c1")
  /\ UNCHANGED <<disc, ai>>

SpecLanguage == Init /\ [][NextLanguage]_vars

(***************************************************************************)
(* discoverMedia.                                                          *)
(***************************************************************************)
SortOptions ==
  {Undefined, Some("popularity"), Some("rating"), Some("release_date"), Some("title")}
PageArgs == {Undefined, Some(2)}
YearArgs == {Undefined, Some(0), Some(1999)}
GenreIdLists == SeqsUpTo({12, 28}, MaxIds)
KeywordIdLists == SeqsUpTo({7, 9}, MaxIds)

\* A slip: the two release-date fields are swapped.
getSortByValue_Swapped(sortOption, mediaType) ==
  CASE sortOption = "release_date" ->
         IF mediaType = "movie" THEN "first_air_date.desc" ELSE "primary_release_date.desc"
    [] sortOption = "rating" -> "vote_average.desc"
    [] OTHER -> "popularity.desc"

\* Lines 22-30.
getSortByValue(sortOption, mediaType) ==
  CASE sortOption = "release_date" ->
         IF mediaType = "movie" THEN "primary_release_date.desc" ELSE "first_air_date.desc"
    [] sortOption = "rating" -> "vote_average.desc"
    [] sortOption = "popularity" -> "popularity.desc"
    [] OTHER -> "popularity.desc"

\* !year: undefined and 0 are falsy.
Falsy(option) == option = Undefined \/ option[1] = 0

\* A slip: the test on year is inverted.
NothingToDiscover_YearInverted(genreIds, keywordIds, year) ==
  Len(genreIds) = 0 /\ Len(keywordIds) = 0 /\ ~Falsy(year)

\* Line 110.
NothingToDiscover(genreIds, keywordIds, year) ==
  Len(genreIds) = 0 /\ Len(keywordIds) = 0 /\ Falsy(year)

\* Lines 112-124: the endpoint, one field per query parameter; a parameter
\* the code does not append is Undefined.  ids.join(',') keeps the ids in order.
DiscoverEndpoint(type, genreIds, keywordIds, page, sortOption, year) ==
  [path |-> <<"discover/", type>>,
   sort_by |-> getSortByValue(sortOption, type),
   page |-> page,
   include_adult |-> "false",
   with_genres |-> IF Len(genreIds) > 0 THEN Some(genreIds) ELSE Undefined,
   with_keywords |-> IF Len(keywordIds) > 0 THEN Some(keywordIds) ELSE Undefined,
   yearParam |-> IF ~Falsy(year)
                 THEN Some(IF type = "movie" THEN "primary_release_year"
                                             ELSE "first_air_date_year")
                 ELSE Undefined,
   yearValue |-> IF ~Falsy(year) THEN year ELSE Undefined]

\* What the upstream answers to a discovery request: items without media_type.
DiscoverResults(endpoint) ==
  IF endpoint.page = 1 THEN <<[id |-> 603, media_type |-> Undefined],
                              [id |-> 1399, media_type |-> Undefined]>>
  ELSE <<[id |-> 604, media_type |-> Undefined]>>

\* Lines 101-126, up to the await or the early return.  page and sortOption
\* take their defaults when they are undefined.
DiscoverStart ==
  /\ disc.pc = "idle"
  /\ \E type \in MediaTypes, genreIds \in GenreIdLists, keywordIds \in KeywordIdLists,
        pageArg \in PageArgs, sortArg \in SortOptions, language \in Languages,
        year \in YearArgs :
       LET page == OrDefault(pageArg, 1)
           sortOption == OrDefault(sortArg, "popularity")
           args == [type |-> type, genreIds |-> genreIds, keywordIds |-> keywordIds,
                    page |-> pageArg, sortOption |-> sortArg, year |-> year]
       IN  IF NothingToDiscover(genreIds, keywordIds, year)
           THEN disc' = [DiscIdle EXCEPT !.pc = "done", !.args = Some(args)]
           ELSE disc' = [DiscIdle EXCEPT
                           !.pc = "await", !.args = Some(args),
                           !.language = language,
                           !.request = Some(DiscoverEndpoint(type, genreIds, keywordIds,
                                                             page, sortOption, year))]
  /\ UNCHANGED <<keywordCache, genreCache, proc, genreRequested, caller, ai, lang>>

\* Lines 126-127: the response arrived; every item is tagged with the type.
DiscoverResolve ==
  /\ disc.pc = "await"
  /\ LET endpoint == disc.request[1]
         delivered == fetchFromTMDb(endpoint, OkOutcome,
                                    [results |-> DiscoverResults(endpoint)])
         data == delivered.value
     IN  disc' = [disc EXCEPT
                    !.pc = "done", !.language = None,
                    !.result = [i \in 1..Len(data.results) |->
                                  [data.results[i] EXCEPT
                                     !.media_type = Some(disc.args[1].type)]]]
  /\ UNCHANGED <<keywordCache, genreCache, proc, genreRequested, caller, ai, lang>>

\* Line 126 throws.
DiscoverReject ==
  /\ disc.pc = "await"
  /\ \E outcome \in FailureOutcomes :
       LET delivered == fetchFromTMDb(disc.request[1], outcome, [results |-> <<>>])
       IN  disc' = [disc EXCEPT !.pc = "failed", !.language = None,
                                !.error = ErrorOf(delivered)]
  /\ UNCHANGED <<keywordCache, genreCache, proc, genreRequested, caller, ai, lang>>

DiscoverReturn ==
  /\ disc.pc \in {"done", "failed"}
  /\ disc' = DiscIdle
  /\ UNCHANGED <<keywordCache, genreCache, proc, genreRequested, caller, ai, lang>>

NextDiscover ==
  \/ DiscoverStart
  \/ DiscoverResolve
  \/ DiscoverReject
  \/ DiscoverReturn

SpecDiscover == Init /\ [][NextDiscover]_vars

(***************************************************************************)
(* aiService: getSearchTermsFromAI and getChatResponseFromAI, in the       *)
(* OpenRouter version (services/aiService.ts) and the two Gemini versions  *)
(* (unnamed/part_000, which trims the reply, and unnamed/part_001).        *)
(***************************************************************************)
Variants == {"openrouter", "geminiTrim", "gemini"}
Queries == {"The Matrix", "show me something with time travel"}
Roles == {"user", "ai", "error"}
Histories == SeqsUpTo(Roles, MaxHistory)

\* Reply texts, token by token: whitespace, braces, one field, or prose.
FieldTokens == {"\"search_query\":\"The Matrix\"", "\"keywords\":[\"time travel\"]"}
ReplyTexts ==
  { <<>>, <<" ">>, <<"{", "}">>, <<" ", "{", "}", " ">>, <<"{">>, <<"Sure!">> }
    \cup {<<"{", f, "}">> : f \in FieldTokens}

\* What the provider does with one request.  The OpenRouter version sees
\* the HTTP exchange itself; the Gemini SDK throws on every transport error.
TextReplies ==
  {[kind |-> "response", text |-> t] : t \in {Undefined} \cup {Some(x) : x \in ReplyTexts}}
TransportReplies(variant) ==
  IF variant = "openrouter"
  THEN {[kind |-> k, text |-> Undefined] : k \in {"throws", "status", "badbody", "nochoices"}}
  ELSE {[kind |-> "throws", text |-> Undefined]}
Replies(variant) == TransportReplies(variant) \cup TextReplies

\* AISearchData: every field optional.
EmptySearchData ==
  [search_query |-> Undefined, media_type |-> Undefined, genres |-> Undefined,
   keywords |-> Undefined, year |-> Undefined]

FieldValue(token, data) ==
  IF token = "\"search_query\":\"The Matrix\""
  THEN [data EXCEPT !.search_query = Some("The Matrix")]
  ELSE [data EXCEPT !.keywords = Some(<<"time travel">>)]

\* JSON.parse on the reply texts: whitespace around the value is skipped;
\* the value is an object with at most one field; anything else is a
\* SyntaxError.
JsonParse(text) ==
  LET core == Trim(text)
  IN  IF core = <<"{", "}">> THEN Returned(EmptySearchData)
      ELSE IF Len(core) = 3 /\ core[1] = "{" /\ core[3] = "}" /\ core[2] \in FieldTokens
           THEN Returned(FieldValue(core[2], EmptySearchData))
           ELSE Thrown("SyntaxError", <<"Unexpected token">>)

\* !s for an optional string: undefined and "" are falsy.
FalsyText(option) == option = Undefined \/ option[1] = <<>>

\* What each version's request throws before a reply text is in hand.
\* aiService.ts lines 41-64; part_000 lines 61-70; part_001 lines 44-71.
ReplyText(variant, reply) ==
  CASE reply.kind = "throws" -> Thrown("TypeError", <<"Failed to fetch">>)
    [] reply.kind = "status" -> Thrown("Error", <<"OpenRouter API error: ">>)
    [] reply.kind = "badbody" -> Thrown("SyntaxError", <<"Unexpected token">>)
    [] reply.kind = "nochoices" ->
         Thrown("TypeError", <<"Cannot read properties of undefined">>)
    [] OTHER ->
         IF variant = "geminiTrim" /\ reply.text = Undefined
         THEN Thrown("TypeError", <<"Cannot read properties of undefined">>)
         ELSE Returned(reply.text)

\* The try block of getSearchTermsFromAI.
SearchTry(variant, reply) ==
  LET got == ReplyText(variant, reply)
  IN  IF got.tag = "thrown" THEN got
      ELSE LET jsonString == IF variant = "geminiTrim"
                             THEN Some(Trim(got.value[1]))
                             ELSE got.value
           IN  IF FalsyText(jsonString)
               THEN Thrown("Error", <<"AI returned an empty response.">>)
               ELSE JsonParse(jsonString[1])

\* A slip: the catch block throws on, as the chat function's does.
SearchCatch_Rethrows(query, attempt) ==
  IF attempt.tag = "thrown"
  THEN Thrown("Error", <<"Failed to get search terms from AI.">>)
  ELSE attempt

\* The catch block of getSearchTermsFromAI: return { search_query: query }.
SearchCatch(query, attempt) ==
  IF attempt.tag = "thrown"
  THEN Returned([EmptySearchData EXCEPT !.search_query = Some(query)])
  ELSE attempt

getSearchTermsFromAI(variant, query, reply) ==
  SearchCatch(query, SearchTry(variant, reply))

\* history.filter(msg => msg.role !== 'error').map(...): the roles sent.
ChatMessages(variant, history) ==
  MapSeq(LAMBDA role : IF role = "ai"
                       THEN IF variant = "openrouter" THEN "assistant" ELSE "model"
                       ELSE "user",
         FilterSeq(LAMBDA role : role # "error", history))

\* The try block of getChatResponseFromAI.
ChatTry(variant, reply) ==
  LET got == IF reply.kind = "response" THEN Returned(reply.text)
             ELSE ReplyText(variant, reply)
  IN  IF got.tag = "thrown" THEN got
      ELSE IF FalsyText(got.value)
           THEN Thrown("Error", <<"AI returned an empty or invalid chat response.">>)
           ELSE Returned(got.value[1])

\* A slip: the catch block answers with a canned reply.
ChatCatch_CannedReply(attempt) ==
  IF attempt.tag = "thrown" THEN Returned(<<"Sorry, something went wrong.">>)
  ELSE attempt

\* The catch block of getChatResponseFromAI.
ChatCatch(attempt) ==
  IF attempt.tag = "thrown"
  THEN Thrown("Error", <<"Failed to get chat response from AI.">>)
  ELSE attempt

getChatResponseFromAI(variant, reply) == ChatCatch(ChatTry(variant, reply))

AiSearchStart ==
  /\ ai.pc = "idle"
  /\ \E variant \in Variants, query \in Queries :
       ai' = [AiIdle EXCEPT !.pc = "await", !.op = "search", !.variant = variant,
                            !.query = query]
  /\ UNCHANGED <<keywordCache, genreCache, proc, genreRequested, caller, disc, lang>>

AiSearchSettle ==
  /\ ai.pc = "await" /\ ai.op = "search"
  /\ \E reply \in Replies(ai.variant) :
       ai' = [ai EXCEPT !.pc = "done", !.reply = Some(reply),
                        !.outcome = Some(getSearchTermsFromAI(ai.variant, ai.query, reply))]
  /\ UNCHANGED <<keywordCache, genreCache, proc, genreRequested, caller, disc, lang>>

AiChatStart ==
  /\ ai.pc = "idle"
  /\ \E variant \in Variants, history \in Histories :
       ai' = [AiIdle EXCEPT !.pc = "await", !.op = "chat", !.variant = variant,
                            !.messages = ChatMessages(variant, history)]
  /\ UNCHANGED <<keywordCache, genreCache, proc, genreRequested, caller, disc, lang>>

AiChatSettle ==
  /\ ai.pc = "await" /\ ai.op = "chat"
  /\ \E reply \in Replies(ai.variant) :
       ai' = [ai EXCEPT !.pc = "done", !.reply = Some(reply),
                        !.outcome = Some(getChatResponseFromAI(ai.variant, reply))]
  /\ UNCHANGED <<keywordCache, genreCache, proc, genreRequested, caller, disc, lang>>

AiReturn ==
  /\ ai.pc = "done"
  /\ ai' = AiIdle
  /\ UNCHANGED <<keywordCache, genreCache, proc, genreRequested, caller, disc, lang>>

NextAI ==
  \/ AiSearchStart
  \/ AiSearchSettle
  \/ AiChatStart
  \/ AiChatSettle
  \/ AiReturn

SpecAI == Init /\ [][NextAI]_vars

(***************************************************************************)
(* Properties.                                                             *)
(***************************************************************************)
SetOf(xs) == {xs[i] : i \in 1..Len(xs)}

NoDuplicates(xs) == \A i, j \in 1..Len(xs) : xs[i] = xs[j] => i = j

Keywords(c) == proc[c].op = "keywords"
Genres(c) == proc[c].op = "genres"

\* The ids the upstream gives for a set of queries: the first match of each
\* query that has one.
FirstMatches(queries) ==
  {KeywordSearch(q)[1].id : q \in {k \in queries : KeywordSearch(k) # <<>>}}

\* C1, as the spec states it: once a getKeywordIds call has completed, a
\* second call with the same phrases issues no request at all.
C1_SecondCallIssuesNoRequest ==
  \A c \in Callers :
    (Keywords(c) /\ caller[c].rel = "identical") => proc[c].pc # "await"

\* C1, amended: a second getKeywordIds call with the same phrases issues
\* requests only for phrases whose keyword search found nothing; every
\* phrase that resolved to an id is served from the cache, and the second
\* call returns the ids the first one returned.
C1_SecondCallFetchesOnlyUnmatched ==
  \A c \in Callers :
    (Keywords(c) /\ caller[c].rel = "identical") =>
      /\ \A i \in 1..Len(proc[c].toFetch) : KeywordSearch(proc[c].toFetch[i]) = <<>>
      /\ proc[c].pc = "done" => SetOf(proc[c].result) = SetOf(caller[c].previous)

\* A second call that serves one phrase from the cache and asks the
\* network again for another.
C1_Witness ==
  \E c \in Callers :
    /\ Keywords(c) /\ caller[c].rel = "identical"
    /\ proc[c].pc = "await"
    /\ Len(proc[c].cachedIds) > 0

\* C3: a getKeywordIds or getGenreIds call whose request fails returns no
\* ids and leaves both caches as they were; a cache changes only in the
\* step in which a call completes, and what it then holds is what the
\* upstream answered.
C3_FailureLeavesCachesAlone ==
  [][ /\ \A c \in Callers :
           (proc[c].pc = "await" /\ proc'[c].pc = "failed") =>
             /\ keywordCache' = keywordCache
             /\ genreCache' = genreCache
             /\ proc'[c].result = None
      /\ (keywordCache' # keywordCache \/ genreCache' # genreCache) =>
           \E c \in Callers : proc[c].pc = "await" /\ proc'[c].pc = "done"
      /\ \A k \in DOMAIN keywordCache' :
           KeywordSearch(k) # <<>> /\ keywordCache'[k] = KeywordSearch(k)[1].id
      /\ \A t \in MediaTypes :
           genreCache'[t] \in {<<>>} \cup {GenreListing(t, l) : l \in Languages}
    ]_vars

\* A batch of two uncached phrases failed and nothing was cached.
C3_Witness ==
  \E c \in Callers :
    /\ Keywords(c) /\ proc[c].pc = "failed" /\ proc[c].distinct = 2
    /\ DOMAIN keywordCache = {}
    /\ proc[c].result = None

\* C7: a getKeywordIds call on a non-empty list that succeeds returns ids
\* without duplicates, no more of them than there are distinct normalized
\* phrases, and exactly the first matches of the phrases that have one: a
\* phrase without a match contributes nothing.
C7_UniqueIdsOfMatchedPhrases ==
  \A c \in Callers :
    (Keywords(c) /\ proc[c].pc = "done" /\ caller[c].args # <<>>) =>
      LET keys == {Normalize(caller[c].args[i]) : i \in 1..Len(caller[c].args)}
      IN  /\ NoDuplicates(proc[c].result)
          /\ Len(proc[c].result) <= Cardinality(keys)
          /\ SetOf(proc[c].result) = FirstMatches(keys)

\* Two phrases with the same first match, answered by the network with one id.
C7_Witness ==
  \E c \in Callers :
    /\ Keywords(c) /\ proc[c].pc = "done" /\ proc[c].via = "network"
    /\ caller[c].args = << <<"a">>, <<"B", " ">> >>
    /\ proc[c].result = <<7>>

\* C8: when a caller resolves names and then resolves the same names spelt
\* differently (letter case, leading and trailing whitespace), the second
\* call returns the same ids; for keywords it issues no request for a name
\* that resolved to an id, and for genres the ids come from the cached list.
C8_SpellingsShareCacheEntry ==
  \A c \in Callers :
    caller[c].rel = "respelt" =>
      /\ proc[c].pc = "done" => SetOf(proc[c].result) = SetOf(caller[c].previous)
      /\ Keywords(c) =>
           \A i \in 1..Len(proc[c].toFetch) :
             KeywordSearch(proc[c].toFetch[i]) = <<>>
      /\ Genres(c) /\ Len(genreCache[proc[c].type]) > 0 => proc[c].pc = "done"

\* " A " resolved from the cache entry that "a" created.
C8_Witness ==
  \E c \in Callers :
    /\ Keywords(c) /\ caller[c].rel = "respelt"
    /\ caller[c].args = << <<" ", "A", " ">> >>
    /\ proc[c].pc = "done" /\ proc[c].via = "cache"
    /\ proc[c].result = <<7>>

\* A step in which a call hands a genre-list request for type t to fetch.
IssuesGenreRequest(t) ==
  \E c \in Callers :
    /\ proc[c].pc # "await"
    /\ proc'[c].pc = "await" /\ proc'[c].op = "genres" /\ proc'[c].type = t

\* C2, as the spec states it: at most one genre-list request is ever issued
\* per media type.
C2_AtMostOneRequestPerType ==
  [][\A t \in MediaTypes : genreRequested[t] => ~IssuesGenreRequest(t)]_vars

\* C2, amended: a getGenreIds call issues a genre-list request only while
\* the genre cache holds no list for its type; from the moment the cache
\* holds one, every call for that type is served from it.
C2_NoRequestOnceCached ==
  [][\A t \in MediaTypes :
       Len(genreCache[t]) > 0 =>
         /\ ~IssuesGenreRequest(t)
         /\ \A c \in Callers :
              (proc[c].pc = "idle" /\ proc'[c].op = "genres" /\ proc'[c].type = t)
                => (proc'[c].pc = "done" /\ proc'[c].via # "network")
    ]_vars

\* One call filled the cache from the network, a later one was served from it.
C2_Witness ==
  \E c, d \in Callers, t \in MediaTypes :
    /\ proc[c].pc = "done" /\ Genres(c) /\ proc[c].type = t /\ proc[c].via = "network"
    /\ proc[d].pc = "done" /\ Genres(d) /\ proc[d].type = t /\ proc[d].via = "cache"
    /\ proc[d].result # <<>>

\* What a caller can tell from the error it caught.
ErrorKind(error) ==
  IF error.name = "Error" /\ error.message[1] = "TMDb API request failed for "
  THEN "HttpStatus"
  ELSE IF error.name = "Error" /\ error.message[1] = "Failed to fetch data from TMDb for "
       THEN "NetworkOrParse"
       ELSE "other"

ErrorStatus(error) ==
  IF ErrorKind(error) = "HttpStatus" THEN error.message[4] ELSE None

\* C10: the error fetchFromTMDb throws tells a response that was not ok
\* (with its status and the endpoint) from a network or parse failure (with
\* the endpoint), and has no third shape.
C10_FailureKindPreserved ==
  \A c \in Callers :
    proc[c].pc = "failed" =>
      /\ ErrorKind(proc[c].error) # "other"
      /\ proc[c].cause.kind = "http" =>
           /\ ErrorKind(proc[c].error) = "HttpStatus"
           /\ ErrorStatus(proc[c].error) = proc[c].cause.status
      /\ proc[c].cause.kind \in {"network", "badjson"} =>
           ErrorKind(proc[c].error) = "NetworkOrParse"

\* C6: discoverMedia called with no genre id, no keyword id and no year
\* returns an empty list and hands nothing to fetch, whatever the media
\* type, the sort option and the page.
C6_NoCriteriaNoRequest ==
  (disc.pc # "idle" /\ disc.args[1].genreIds = <<>> /\ disc.args[1].keywordIds = <<>>
     /\ disc.args[1].year = Undefined) =>
    /\ disc.pc = "done"
    /\ disc.request = Undefined
    /\ disc.result = <<>>

\* The early return for a tv call sorted by release date, page 2.
C6_Witness ==
  /\ disc.pc = "done" /\ disc.request = Undefined /\ disc.result = <<>>
  /\ disc.args[1].type = "tv" /\ disc.args[1].sortOption = Some("release_date")
  /\ disc.args[1].page = Some(2) /\ disc.args[1].year = Undefined

\* The sort_by value the spec gives for a sort option and a media type.
SortByTable(sortArg, type) ==
  IF sortArg = Some("rating") THEN "vote_average.desc"
  ELSE IF sortArg = Some("release_date") /\ type = "movie" THEN "primary_release_date.desc"
  ELSE IF sortArg = Some("release_date") /\ type = "tv" THEN "first_air_date.desc"
  ELSE "popularity.desc"

\* C9: the sort_by parameter of every discovery request is the table's value
\* for the call's sort option and media type; an absent or unrecognized
\* option sorts by popularity.
C9_SortByFollowsTable ==
  disc.request # Undefined =>
    disc.request[1].sort_by = SortByTable(disc.args[1].sortOption, disc.args[1].type)

\* A tv request sorted by release date.
C9_Witness ==
  /\ disc.pc = "await"
  /\ disc.args[1].type = "tv" /\ disc.args[1].sortOption = Some("release_date")
  /\ disc.request[1].sort_by = "first_air_date.desc"

\* The reply texts that are not JSON.
NotJsonTexts == { <<>>, <<" ">>, <<"{">>, <<"Sure!">> }

\* The provider call threw, answered with an error status, or answered
\* with no text, an empty text or a text that is not JSON.
SearchReplyFailed(reply) ==
  \/ reply.kind # "response"
  \/ reply.text = Undefined
  \/ reply.text[1] \in NotJsonTexts

\* C4: getSearchTermsFromAI never throws, and when the provider call fails
\* or its reply is empty or not JSON it returns { search_query: query } with
\* no other field set.
C4_SearchFallsBackToRawQuery ==
  (ai.pc = "done" /\ ai.op = "search") =>
    /\ ai.outcome[1].tag = "returned"
    /\ SearchReplyFailed(ai.reply[1]) =>
         ai.outcome[1].value = [EmptySearchData EXCEPT !.search_query = Some(ai.query)]

\* The trimming version got a reply without text and fell back.
C4_Witness ==
  /\ ai.pc = "done" /\ ai.op = "search" /\ ai.variant = "geminiTrim"
  /\ ai.reply[1].kind = "response" /\ ai.reply[1].text = Undefined
  /\ ai.outcome[1].tag = "returned"
  /\ ai.outcome[1].value.search_query = Some(ai.query)

\* The provider answered with a text that is not empty.
ChatReplyHasContent(reply) ==
  reply.kind = "response" /\ reply.text # Undefined /\ reply.text[1] # <<>>

\* C5: getChatResponseFromAI throws whenever the provider call fails or its
\* reply has no content, and otherwise returns the reply's content
\* unchanged; it never returns a text of its own.
C5_ChatPropagatesFailure ==
  (ai.pc = "done" /\ ai.op = "chat") =>
    IF ChatReplyHasContent(ai.reply[1])
    THEN ai.outcome[1].tag = "returned" /\ ai.outcome[1].value = ai.reply[1].text[1]
    ELSE ai.outcome[1].tag = "thrown" /\ ai.outcome[1].name = "Error"

\* The OpenRouter version got an empty content and threw.
C5_Witness ==
  /\ ai.pc = "done" /\ ai.op = "chat" /\ ai.variant = "openrouter"
  /\ ai.reply[1].kind = "response" /\ ai.reply[1].text = Some(<<>>)
  /\ ai.outcome[1].tag = "thrown"

\* C11: once the keyword cache maps a phrase to an id, or the genre cache
\* holds a list for a media type, no step of any getKeywordIds or
\* getGenreIds call, however the calls interleave, removes that entry or
\* replaces it with a different value.
C11_CacheEntriesImmutable ==
  [][ /\ \A k \in DOMAIN keywordCache :
           k \in DOMAIN keywordCache' /\ keywordCache'[k] = keywordCache[k]
      /\ \A t \in MediaTypes :
           Len(genreCache[t]) > 0 => genreCache'[t] = genreCache[t]
    ]_vars

\* The first match of each phrase that has one, in the order of the phrases.
MatchedIds(phrases) ==
  MapSeq(LAMBDA k : KeywordSearch(k)[1].id,
         FilterSeq(LAMBDA k : KeywordSearch(k) # <<>>, phrases))

\* The ids of a phrase list in the order in which an empty cache resolves
\* them: normalized, first occurrence first.
FirstResolutionOrder(keywords) ==
  Unique(MatchedIds(Unique(MapSeq(Normalize, keywords))))

\* C12, as the spec states it: with the same phrases and the same upstream
\* answers, a call returns the same duplicate-free id sequence whatever the
\* keyword cache held when it started; so a caller's second call with the
\* same phrases returns the sequence its first call returned.
C12_SameSequenceWhateverCached ==
  \A c \in Callers :
    (Keywords(c) /\ caller[c].rel = "identical" /\ proc[c].pc = "done") =>
      /\ NoDuplicates(proc[c].result)
      /\ proc[c].result = caller[c].previous

\* C12, amended: the ids a getKeywordIds call returns are deduplicated and,
\* as a set, the same whatever the cache holds; their order is the ids of
\* the phrases found in the cache, in input order, followed by the ids of
\* the phrases looked up, in input order.  It is the order of first
\* resolution when the call finds all of its phrases cached or none of them.
C12_CachedFirstThenFetched ==
  [][\A c \in Callers :
       (proc'[c].op = "keywords" /\ proc'[c] # proc[c] /\ caller'[c].args # <<>>) =>
         LET keys == Unique(MapSeq(Normalize, caller'[c].args))
             cached == FilterSeq(LAMBDA k : k \in DOMAIN keywordCache, keys)
             missing == FilterSeq(LAMBDA k : k \notin DOMAIN keywordCache, keys)
             expected == FirstResolutionOrder(caller'[c].args)
         IN  CASE proc[c].pc = "await" /\ proc'[c].pc = "done" ->
                    /\ proc'[c].result =
                         Unique(proc[c].cachedIds \o MatchedIds(proc[c].toFetch))
                    /\ NoDuplicates(proc'[c].result)
                    /\ SetOf(proc'[c].result) = SetOf(expected)
                    /\ proc[c].cachedIds = <<>> => proc'[c].result = expected
               [] proc[c].pc # "await" /\ proc'[c].pc = "await" ->
                    /\ proc'[c].cachedIds = MatchedIds(cached)
                    /\ proc'[c].toFetch = missing
               [] proc[c].pc # "await" /\ proc'[c].pc = "done" ->
                    proc'[c].result = expected
               [] OTHER -> TRUE
    ]_vars

\* "ab" was cached and "a" was not: the call with "a", "ab" returned the id
\* of "ab" first.
C12_Witness ==
  \E c \in Callers :
    /\ Keywords(c) /\ proc[c].pc = "done" /\ proc[c].via = "network"
    /\ caller[c].args = << <<"a">>, <<"a", "b">> >>
    /\ proc[c].result = <<9, 7>>

\* C13: a call made in one language, for a media type whose genre list or
\* for a phrase whose keyword id was cached from a request made in another
\* language, issues no request for it and is answered from the cached data:
\* the genre ids are those that the names match in the list of the other
\* language, and the keyword id is the cached one.
C13_CachesIgnoreLanguage ==
  [][\A c \in Callers :
       (proc[c].pc = "idle" /\ proc'[c].pc # "idle" /\ caller'[c].args # <<>>) =>
         LET names == MapSeq(Normalize, caller'[c].args)
             type == proc'[c].type
         IN  /\ ( /\ proc'[c].op = "genres"
                  /\ Len(genreCache[type]) > 0
                  /\ lang.genres[type] # lang'.call[c] ) =>
                  /\ proc'[c].pc = "done"
                  /\ genreRequested' = genreRequested
                  /\ genreCache' = genreCache
                  /\ proc'[c].result =
                       MatchGenres(GenreListing(type, lang.genres[type]), names)
             /\ proc'[c].op = "keywords" =>
                  \A i \in 1..Len(names) :
                    ( /\ names[i] \in DOMAIN keywordCache
                      /\ lang.keywords[names[i]] # lang'.call[c] ) =>
                      /\ ~Contains(proc'[c].toFetch, names[i])
                      /\ Contains(IF proc'[c].pc = "done" THEN proc'[c].result
                                  ELSE proc'[c].cachedIds,
                                  keywordCache[names[i]])
    ]_vars

\* A call in es-ES answered from the movie list fetched in en-US: "a" names
\* a genre in the es-ES list and none in the en-US one, so the call found
\* nothing.
C13_Witness ==
  \E c \in Callers :
    /\ Genres(c) /\ proc[c].pc = "done" /\ proc[c].via = "cache"
    /\ proc[c].type = "movie"
    /\ lang.call[c] = "es-ES" /\ lang.genres["movie"] = "en-US"
    /\ caller[c].args = << <<"a">> >>
    /\ proc[c].result = <<>>
    /\ MatchGenres(GenreListing("movie", "es-ES"), << <<"a">> >>) = <<28>>

====
